---- MODULE Spec2Model ----
(***************************************************************************)
(* Image Bard: the server action convertImageUrlToDataUrlAction            *)
(* (src/src/app/actions.ts), the flow generatePoemFromImage                *)
(* (src/src/ai/flows/generate-poem-from-image.ts) and the client component *)
(* ImageBardClient (src/unnamed/part_000).                                 *)
(*                                                                         *)
(* JavaScript values are tagged records: [t |-> "null"], [t |-> "string",  *)
(* s |-> tokens], [t |-> "Error", ...], [t |-> "object", ...].  A string   *)
(* is a sequence of tokens; every substring the code or a property probes  *)
(* ("fetch", "404", the status text, the content type, "image/") is a      *)
(* token of its own, so includes / startsWith are decided on tokens.       *)
(***************************************************************************)
EXTENDS Integers, Sequences, FiniteSets, TLC

VARIABLES
    cpc,        \* position inside convertImageUrlToDataUrlAction
    curl,       \* its argument imageUrl
    ctr,        \* what the transport does for this call (fixed when fetch is issued)
    cexc,       \* the exception in flight / last caught
    cresult,    \* the ConversionResult the promise resolved to
    coutcome,   \* "pending" | "resolved" | "rejected"
    bodyRead,   \* response.arrayBuffer() was called
    jsonRead,   \* response.json() was called
    ppc,        \* position inside generatePoemFromImageFlow
    preq,       \* its argument input
    pmodel,     \* what the prompt / model did for this call
    presult,    \* the value the promise resolved to, or the error it rejected with
    poutcome,   \* "pending" | "resolved" | "rejected"
    modelCalled, \* generatePoemPrompt(input) was invoked
    imagePreview,  \* useState: null or the data URL shown
    generatedPoem, \* useState: null or the poem shown
    isLoading,     \* useState
    error,         \* useState: null or the message shown
    activeTab,     \* useState: "file" | "url"
    fileError,     \* fileForm's error on imageFile: null or its message
    selected,      \* the file held by the file input, if any
    readers,       \* FileReaders whose readAsDataURL has not ended yet
    urlCall,       \* number of the onUrlSubmit call awaiting its result, 0 if none
    poemCall,      \* number of the triggerPoemGeneration call awaiting, 0 if none
    latest,        \* how many requests the user has initiated so far
    lastEvent      \* the handler or callback that ran last

convVars == <<cpc, curl, ctr, cexc, cresult, coutcome, bodyRead, jsonRead>>
flowVars == <<ppc, preq, pmodel, presult, poutcome, modelCalled>>
uiVars == <<imagePreview, generatedPoem, isLoading, error, activeTab, fileError,
            selected, readers, urlCall, poemCall, latest, lastEvent>>
vars == <<convVars, flowVars, uiVars>>

(***************************** JavaScript values ***************************)

JsNull == [t |-> "null"]
JsUndefined == [t |-> "undefined"]
S(tokens) == [t |-> "string", s |-> tokens]

\* String.prototype.includes on token sequences: sub occurs contiguously in
\* str; the empty string is included in every string.
Contains(str, sub) ==
    \E i \in 0..(Len(str) - Len(sub)) :
        \A j \in 1..Len(sub) : str[i + j] = sub[j]

\* String.prototype.startsWith for a one-token prefix.
StartsWith(str, tok) == Len(str) > 0 /\ str[1] = tok

\* JavaScript truthiness of the values that occur here.
Truthy(v) ==
    CASE v.t = "null" -> FALSE
      [] v.t = "undefined" -> FALSE
      [] v.t = "string" -> v.s # <<>>
      [] OTHER -> TRUE

\* An optional property that is present and not undefined.
IsSet(object, field) == field \in DOMAIN object /\ object[field] # JsUndefined

\* String coercion, as in  "..." + value.
Str(v) ==
    CASE v.t = "null" -> <<"null">>
      [] v.t = "undefined" -> <<"undefined">>
      [] v.t = "string" -> v.s
      [] OTHER -> <<"[object Object]">>

(******************************** base64 ***********************************)

\* A byte buffer is its identity and its length; Buffer.toString("base64")
\* yields 4 characters per started group of 3 bytes, the last group padded.
Base64Encode(bytes) ==
    [src |-> bytes.id,
     chars |-> 4 * ((bytes.len + 2) \div 3),
     pad |-> (3 - (bytes.len % 3)) % 3]

\* Length of the bytes a base64 text decodes to.
Base64DecodedLength(b64) == (b64.chars \div 4) * 3 - b64.pad

\* The template literal `data:${contentType};base64,${base64Data}`.
DataUrl(mime, b64) ==
    [scheme |-> "data:", mime |-> mime, marker |-> ";base64,", data |-> b64]

(********************* convertImageUrlToDataUrlAction **********************)

\* ConversionResult objects: an optional field that is not set is absent.
Succeeded(dataUrl) == [success |-> TRUE, dataUrl |-> dataUrl]
Failed(message) == [success |-> FALSE, error |-> message]
Unsettled == [unsettled |-> TRUE]
NoTransport == [none |-> TRUE]
NoException == [t |-> "none"]

HttpSchemes == {"http:", "https:"}
UrlSchemes == HttpSchemes \cup {"ftp:"}

\* ImageUrlSchema = z.string().url(...): the string parses as an absolute URL
\* (a scheme token followed by the rest).
ImageUrlSchemaAccepts(url) == Len(url) = 2 /\ url[1] \in UrlSchemes

InvalidUrlMessage == S(<<"Invalid URL format.">>)

\* response.ok
ResponseOk(resp) == resp.status >= 200 /\ resp.status <= 299

\* The error text of a response that is not ok, given what response.json() did.
StatusTextOrGeneric(resp) ==
    IF resp.statusText # <<>>
    THEN S(<<"Failed to ", "fetch", " image: ">> \o resp.statusText)
    ELSE S(<<"Failed to ", "fetch", " image. Status: ", ToString(resp.status)>>)

\* Faulty variant of ErrorText: the JSON body's message is never used.
ErrorTextIgnoringJson(resp) == StatusTextOrGeneric(resp)

\* errorText: the JSON body's message when truthy, else the fallback.
ErrorText(resp) ==
    IF resp.json.throws
    THEN StatusTextOrGeneric(resp)
    ELSE LET errorData == resp.json.value
         IN IF Truthy(errorData) /\ Truthy(errorData.message)
            THEN errorData.message
            ELSE StatusTextOrGeneric(resp)

\* Faulty variant of ContentTypeRejected: the startsWith test is missing.
ContentTypeOnlyMissing(contentType) == ~Truthy(contentType)

\* !contentType || !contentType.startsWith("image/")
ContentTypeRejected(contentType) ==
    ~Truthy(contentType) \/ ~StartsWith(contentType.s, "image/")

ContentTypeMessage(contentType) ==
    S(<<"Invalid content type. URL does not point to an image. Found: ">>
        \o Str(contentType))

EmptyImageMessage == S(<<"Fetched image is empty.">>)
SizeLimitMessage == S(<<"Image size exceeds 10MB limit.">>)
MaxRemoteBytes == 10 * 1024 * 1024

\* Faulty variant of BodyResult: >= where the code has >.
BodyResultOffByOne(contentType, bytes) ==
    IF bytes.len = 0 THEN Failed(EmptyImageMessage)
    ELSE IF bytes.len >= MaxRemoteBytes THEN Failed(SizeLimitMessage)
    ELSE Succeeded(DataUrl(contentType.s, Base64Encode(bytes)))

\* The checks on the buffered body and the encoding that follows them.
BodyResult(contentType, bytes) ==
    IF bytes.len = 0 THEN Failed(EmptyImageMessage)
    ELSE IF bytes.len > MaxRemoteBytes THEN Failed(SizeLimitMessage)
    ELSE Succeeded(DataUrl(contentType.s, Base64Encode(bytes)))

NetworkErrorMessage ==
    <<"Network error or invalid URL. Could not ", "fetch", " the image.">>

\* Faulty variant of CatchResult: the failure carries no error.
CatchResultNoError(e) == [success |-> FALSE]

\* The catch block: the result built from the caught value e.
CatchResult(e) ==
    LET errorMessage ==
            IF e.t = "Error" THEN e.message
            ELSE IF e.t = "string" THEN e.s
            ELSE <<"Failed to convert image URL.">>
    IN Failed(S(IF Contains(errorMessage, <<"fetch">>)
                THEN NetworkErrorMessage
                ELSE errorMessage))

\* Faulty variant of Throw: the throwing statement is outside the try block.
ThrowEscapes(e) ==
    /\ cexc' = e
    /\ cpc' = "done"
    /\ coutcome' = "rejected"
    /\ UNCHANGED cresult

\* A throw inside the try block transfers control to the catch block.
Throw(e) ==
    /\ cexc' = e
    /\ cpc' = "catch"
    /\ UNCHANGED <<cresult, coutcome>>

\* return <result> from the async function: the promise resolves.
Return(result) ==
    /\ cresult' = result
    /\ coutcome' = "resolved"
    /\ cpc' = "done"
    /\ UNCHANGED cexc

ConvIdle ==
    /\ cpc = "idle" /\ curl = <<>> /\ ctr = NoTransport /\ cexc = NoException
    /\ cresult = Unsettled /\ coutcome = "pending"
    /\ bodyRead = FALSE /\ jsonRead = FALSE

\* The call is over and its result consumed.
ConvReset ==
    /\ cpc' = "idle" /\ curl' = <<>> /\ ctr' = NoTransport /\ cexc' = NoException
    /\ cresult' = Unsettled /\ coutcome' = "pending"
    /\ bodyRead' = FALSE /\ jsonRead' = FALSE

\* The caller invokes the action with imageUrl.
ConvInvoke(imageUrl) ==
    /\ cpc = "idle"
    /\ cpc' = "validate"
    /\ curl' = imageUrl
    /\ ctr' = NoTransport
    /\ cexc' = NoException
    /\ cresult' = Unsettled
    /\ coutcome' = "pending"
    /\ bodyRead' = FALSE
    /\ jsonRead' = FALSE

\* ImageUrlSchema.safeParse(imageUrl) and the early return.
ConvValidate ==
    /\ cpc = "validate"
    /\ IF ImageUrlSchemaAccepts(curl)
       THEN cpc' = "fetch" /\ UNCHANGED <<cexc, cresult, coutcome>>
       ELSE Return(Failed(InvalidUrlMessage))
    /\ UNCHANGED <<curl, ctr, bodyRead, jsonRead>>

\* await fetch(imageUrl, ...): the transport rejects or delivers a response.
\* A URL whose scheme fetch does not implement is always rejected.
ConvFetch(tr) ==
    /\ cpc = "fetch"
    /\ (curl[1] \notin HttpSchemes) => tr.rejects
    /\ ctr' = tr
    /\ IF tr.rejects
       THEN Throw(tr.e)
       ELSE cpc' = "status" /\ UNCHANGED <<cexc, cresult, coutcome>>
    /\ UNCHANGED <<curl, bodyRead, jsonRead>>

\* if (!response.ok) { ... await response.json() ... return failure }
ConvStatus ==
    /\ cpc = "status"
    /\ IF ResponseOk(ctr)
       THEN /\ cpc' = "contentType"
            /\ UNCHANGED <<cexc, cresult, coutcome, jsonRead>>
       ELSE /\ jsonRead' = TRUE
            /\ Return(Failed(ErrorText(ctr)))
    /\ UNCHANGED <<curl, ctr, bodyRead>>

\* response.headers.get("content-type") and its check.
ConvContentType ==
    /\ cpc = "contentType"
    /\ IF ContentTypeRejected(ctr.contentType)
       THEN Return(Failed(ContentTypeMessage(ctr.contentType)))
       ELSE cpc' = "body" /\ UNCHANGED <<cexc, cresult, coutcome>>
    /\ UNCHANGED <<curl, ctr, bodyRead, jsonRead>>

\* await response.arrayBuffer(), then the size checks and the encoding.
ConvBody ==
    /\ cpc = "body"
    /\ bodyRead' = TRUE
    /\ IF ctr.body.throws
       THEN Throw(ctr.body.e)
       ELSE Return(BodyResult(ctr.contentType, ctr.body.bytes))
    /\ UNCHANGED <<curl, ctr, jsonRead>>

\* catch (e) { ... return { success: false, error: errorMessage } }
ConvCatch ==
    /\ cpc = "catch"
    /\ Return(CatchResult(cexc))
    /\ UNCHANGED <<curl, ctr, bodyRead, jsonRead>>

(************************** inputs of the action ***************************)

ImageUrls ==
    {<<"https:", "//img.example/cat.png">>,
     <<"http:", "//img.example/missing">>,
     <<"ftp:", "//img.example/cat.png">>,
     <<"not a url">>,
     <<>>}

TypeErrorFetchFailed ==
    [t |-> "Error", name |-> "TypeError", message |-> <<"fetch", " failed">>]
AbortError ==
    [t |-> "Error", name |-> "AbortError", message |-> <<"This operation was aborted">>]

Thrown ==
    {TypeErrorFetchFailed, AbortError,
     [t |-> "Error", name |-> "TypeError", message |-> <<"terminated">>],
     [t |-> "Error", name |-> "Error", message |-> <<>>],
     S(<<"socket hang up">>),
     S(<<"could not ", "fetch">>),
     [t |-> "object"]}

Statuses == {200, 404, 500}
StatusTexts == {<<>>, <<"Not Found">>, <<"Internal Server Error">>}

ContentTypes ==
    {JsNull, S(<<>>), S(<<"text/html">>), S(<<"IMAGE/", "PNG">>),
     S(<<"image/", "png">>), S(<<"image/", "jpeg; charset=binary">>)}

JsonOutcomes ==
    {[throws |-> TRUE]}
    \cup {[throws |-> FALSE, value |-> v] :
            v \in {JsNull}
                \cup {[t |-> "object", message |-> m] :
                        m \in {JsUndefined, S(<<>>), S(<<"quota exceeded">>),
                               S(<<"no such object ", "404">>)}}}

KiB == 1024
MiB == 1024 * 1024
BodySizes == {0, 1, 2, 3, 2 * KiB, MaxRemoteBytes - 1, MaxRemoteBytes,
              MaxRemoteBytes + 1, 11 * MiB}

BodyOutcomes ==
    {[throws |-> TRUE, e |-> e] : e \in {AbortError, S(<<"socket hang up">>)}}
    \cup {[throws |-> FALSE, bytes |-> [id |-> "body", len |-> n]] : n \in BodySizes}

Responses ==
    {[rejects |-> FALSE, status |-> st, statusText |-> tx, contentType |-> ct,
      json |-> js, body |-> bd] :
        st \in Statuses, tx \in StatusTexts, ct \in ContentTypes,
        js \in JsonOutcomes, bd \in BodyOutcomes}

Transports == {[rejects |-> TRUE, e |-> e] : e \in Thrown} \cup Responses

(************************* generatePoemFromImage ***************************)

\* A string offered as photoDataUri is kept by its parts: the scheme before
\* the MIME type, the MIME type, the marker after it and the payload text.
IsString(v) == "scheme" \in DOMAIN v \/ ("t" \in DOMAIN v /\ v.t = "string")

\* GeneratePoemFromImageInputSchema = z.object({photoDataUri: z.string()}).
InputSchemaAccepts(input) == IsString(input.photoDataUri)

\* GeneratePoemFromImageOutputSchema = z.object({poem: z.string()}).
OutputSchemaAccepts(output) ==
    output.t = "object" /\ IsString(output.poem)

SchemaError(what) ==
    [t |-> "Error", name |-> "GenkitError",
     message |-> <<"INVALID_ARGUMENT: Schema validation failed: ", what>>]

NoRequest == [none |-> TRUE]
NoModel == [none |-> TRUE]

FlowIdle ==
    /\ ppc = "idle" /\ preq = NoRequest /\ pmodel = NoModel
    /\ presult = Unsettled /\ poutcome = "pending" /\ modelCalled = FALSE

\* The call is over and its result consumed.
FlowReset ==
    /\ ppc' = "idle" /\ preq' = NoRequest /\ pmodel' = NoModel
    /\ presult' = Unsettled /\ poutcome' = "pending" /\ modelCalled' = FALSE

\* generatePoemFromImage(input) calls generatePoemFromImageFlow(input).
FlowInvoke(input) ==
    /\ ppc = "idle"
    /\ ppc' = "inputSchema"
    /\ preq' = input
    /\ pmodel' = NoModel
    /\ presult' = Unsettled
    /\ poutcome' = "pending"
    /\ modelCalled' = FALSE

FlowReject(e) ==
    /\ presult' = e
    /\ poutcome' = "rejected"
    /\ ppc' = "done"

FlowResolve(output) ==
    /\ presult' = output
    /\ poutcome' = "resolved"
    /\ ppc' = "done"

\* defineFlow parses the input with inputSchema before running the function.
FlowValidateInput ==
    /\ ppc = "inputSchema"
    /\ IF InputSchemaAccepts(preq)
       THEN ppc' = "prompt" /\ UNCHANGED <<presult, poutcome>>
       ELSE FlowReject(SchemaError("input"))
    /\ UNCHANGED <<preq, pmodel, modelCalled>>

\* const {output} = await generatePoemPrompt(input): the model answers with an
\* output or the invocation throws.
FlowPrompt(m) ==
    /\ ppc = "prompt"
    /\ modelCalled' = TRUE
    /\ pmodel' = m
    /\ IF m.throws
       THEN FlowReject(m.e)
       ELSE ppc' = "outputSchema" /\ UNCHANGED <<presult, poutcome>>
    /\ UNCHANGED preq

\* return output!; defineFlow parses the returned value with outputSchema.
FlowValidateOutput ==
    /\ ppc = "outputSchema"
    /\ IF OutputSchemaAccepts(pmodel.output)
       THEN FlowResolve(pmodel.output)
       ELSE FlowReject(SchemaError("output"))
    /\ UNCHANGED <<preq, pmodel, modelCalled>>

(*************************** inputs of the flow ****************************)

PayloadTexts ==
    {Base64Encode([id |-> "photo", len |-> n]) : n \in {0, 1, 3, 2 * 1024}}

PhotoStrings ==
    {[scheme |-> sc, mime |-> mt, marker |-> mk, data |-> d] :
        sc \in {"data:", ""},
        mt \in {<<"image/", "png">>, <<>>},
        mk \in {";base64,", ","},
        d \in PayloadTexts}

PoemInputs ==
    {[photoDataUri |-> v] :
        v \in PhotoStrings \cup {JsUndefined, [t |-> "number", n |-> 7]}}

Poems == {<<"Roses are red">>, <<"A heron waits", "\n", "in morning mist">>}

ModelOutputs ==
    {JsNull, [t |-> "object", poem |-> JsUndefined],
     [t |-> "object", poem |-> [t |-> "number", n |-> 7]],
     [t |-> "object", poem |-> S(<<>>)]}
    \cup {[t |-> "object", poem |-> S(p)] : p \in Poems}

ModelErrors ==
    {[t |-> "Error", name |-> "GenkitError", message |-> <<"model unavailable">>],
     S(<<"quota">>)}

ModelOutcomes ==
    {[throws |-> TRUE, e |-> e] : e \in ModelErrors}
    \cup {[throws |-> FALSE, output |-> o] : o \in ModelOutputs}

(***************************** ImageBardClient *****************************)

MAX_FILE_SIZE == 5 * 1024 * 1024
ACCEPTED_IMAGE_TYPES ==
    {<<"image/", "jpeg">>, <<"image/", "png">>, <<"image/", "webp">>,
     <<"image/", "gif">>}

RequiredMessage == S(<<"Image is required.">>)
MaxFileSizeMessage == S(<<"Max file size is 5MB.">>)
AcceptedTypesMessage == S(<<".jpg, .jpeg, .png, .webp and .gif files are accepted.">>)

\* Faulty variant of FileIssues: the type refinement chained before the size one.
FileIssuesTypeFirst(files) ==
    (IF Len(files) > 0 THEN <<>> ELSE <<RequiredMessage>>)
    \o (IF files[1].type \in ACCEPTED_IMAGE_TYPES THEN <<>> ELSE <<AcceptedTypesMessage>>)
    \o (IF files[1].size <= MAX_FILE_SIZE THEN <<>> ELSE <<MaxFileSizeMessage>>)

\* fileSchema.shape.imageFile.safeParse(files).error.errors: zod runs every
\* refinement of the chain and lists the failing ones in the order they were
\* chained.
FileIssues(files) ==
    (IF Len(files) > 0 THEN <<>> ELSE <<RequiredMessage>>)
    \o (IF files[1].size <= MAX_FILE_SIZE THEN <<>> ELSE <<MaxFileSizeMessage>>)
    \o (IF files[1].type \in ACCEPTED_IMAGE_TYPES THEN <<>> ELSE <<AcceptedTypesMessage>>)

\* urlSchema: z.string().url(...), the resolver of urlForm.
UrlSchemaAccepts(url) == Len(url) = 2 /\ url[1] \in UrlSchemes

\* reader.result after readAsDataURL(file) ended: the data URL of the file's
\* bytes, or null when the read failed.
ReaderResult(file, failed) ==
    IF failed THEN JsNull
    ELSE DataUrl(file.type, Base64Encode([id |-> file.id, len |-> file.size]))

\* The state after the handler's updates are rendered: the effect on
\* [imagePreview, activeTab] resets the poem and the error when either changed.
Render(preview, poem, err, tab) ==
    /\ imagePreview' = preview
    /\ activeTab' = tab
    /\ IF preview # imagePreview \/ tab # activeTab
       THEN generatedPoem' = JsNull /\ error' = JsNull
       ELSE generatedPoem' = poem /\ error' = err

\* Faulty variant of LoadingAfterSettle: the reset sits in the try block only.
LoadingResetOnlyOnSuccess(failed) == failed

\* finally { setIsLoading(false) } of onUrlSubmit and triggerPoemGeneration.
LoadingAfterSettle(failed) == FALSE

NoFile == [none |-> TRUE]

UiIdle ==
    /\ imagePreview = JsNull /\ generatedPoem = JsNull /\ isLoading = FALSE
    /\ error = JsNull /\ activeTab = "file" /\ fileError = JsNull
    /\ selected = NoFile
    /\ readers = {} /\ urlCall = 0 /\ poemCall = 0 /\ latest = 0
    /\ lastEvent = [kind |-> "mount", gen |-> 0]

\* How many requests (file selections, URL loads, poem generations) the user
\* initiates in one run.
MaxOps == 3

\* <Tabs onValueChange={(value) => setActiveTab(value)}>: only the active
\* tab's content is mounted, so leaving the "file" tab drops the file input
\* and the file it held.
SwitchTab(tab) ==
    /\ tab # activeTab
    /\ Render(imagePreview, generatedPoem, error, tab)
    /\ selected' = NoFile
    /\ lastEvent' = [kind |-> "tab", gen |-> 0]
    /\ UNCHANGED <<isLoading, fileError, readers, urlCall, poemCall, latest>>
    /\ UNCHANGED <<convVars, flowVars>>

\* handleFileChange: the file input of the "file" tab changed to files (a
\* change event fires only when the selection differs from the one held).
HandleFileChange(files) ==
    /\ activeTab = "file"
    /\ latest < MaxOps
    /\ Len(files) > 0
    /\ files[1] # selected
    /\ selected' = files[1]
    /\ latest' = latest + 1
    /\ lastEvent' = [kind |-> "fileChange", gen |-> latest']
    /\ LET issues == FileIssues(files)
       IN IF issues # <<>>
          THEN /\ fileError' = issues[1]
               /\ Render(JsNull, generatedPoem, error, activeTab)
               /\ UNCHANGED readers
          ELSE /\ fileError' = JsNull
               /\ readers' = readers \cup {[gen |-> latest', file |-> files[1]]}
               /\ UNCHANGED <<imagePreview, generatedPoem, error, activeTab>>
    /\ UNCHANGED <<isLoading, urlCall, poemCall>>
    /\ UNCHANGED <<convVars, flowVars>>

\* reader.onloadend = () => setImagePreview(reader.result)
ReaderLoadEnd(reader, failed) ==
    /\ reader \in readers
    /\ readers' = readers \ {reader}
    /\ Render(ReaderResult(reader.file, failed), generatedPoem, error, activeTab)
    /\ lastEvent' = [kind |-> "readerLoadEnd", gen |-> reader.gen]
    /\ UNCHANGED <<isLoading, fileError, selected, urlCall, poemCall, latest>>
    /\ UNCHANGED <<convVars, flowVars>>

\* urlForm.handleSubmit(onUrlSubmit) with the submit button enabled: the part
\* of onUrlSubmit up to the await.
OnUrlSubmit(imageUrl) ==
    /\ activeTab = "url"
    /\ ~isLoading
    /\ UrlSchemaAccepts(imageUrl)
    /\ latest < MaxOps
    /\ latest' = latest + 1
    /\ urlCall' = latest'
    /\ isLoading' = TRUE
    /\ Render(JsNull, JsNull, JsNull, activeTab)
    /\ lastEvent' = [kind |-> "onUrlSubmit", gen |-> latest']
    /\ ConvInvoke(imageUrl)
    /\ UNCHANGED <<fileError, selected, readers, poemCall>>
    /\ UNCHANGED flowVars

\* onUrlSubmit after the await, when the action's promise resolved.
OnUrlSubmitResolved ==
    /\ urlCall # 0
    /\ cpc = "done" /\ coutcome = "resolved"
    /\ LET result == cresult
           shown == result.success /\ IsSet(result, "dataUrl")
           message == IF Truthy(result.error) THEN result.error
                      ELSE S(<<"Failed to load image from URL.">>)
       IN /\ IF shown
             THEN Render(result.dataUrl, generatedPoem, error, activeTab)
             ELSE Render(imagePreview, generatedPoem, message, activeTab)
          /\ isLoading' = LoadingAfterSettle(~shown)
    /\ urlCall' = 0
    /\ lastEvent' = [kind |-> "onUrlSubmitSettled", gen |-> urlCall]
    /\ ConvReset
    /\ UNCHANGED <<fileError, selected, readers, poemCall, latest>>
    /\ UNCHANGED flowVars

\* onUrlSubmit after the await, when the call threw e (the catch block): the
\* request to the server failed, or the action's promise rejected.
OnUrlSubmitThrew(e) ==
    /\ urlCall # 0
    /\ LET errorMsg == IF e.t = "Error" THEN S(e.message)
                       ELSE S(<<"An unknown error occurred.">>)
       IN Render(imagePreview, generatedPoem, errorMsg, activeTab)
    /\ isLoading' = LoadingAfterSettle(TRUE)
    /\ urlCall' = 0
    /\ lastEvent' = [kind |-> "onUrlSubmitSettled", gen |-> urlCall]
    /\ ConvReset
    /\ UNCHANGED <<fileError, selected, readers, poemCall, latest>>
    /\ UNCHANGED flowVars

\* triggerPoemGeneration with the Generate button rendered and enabled (an
\* image is shown and nothing is loading): the part up to the await.
TriggerPoemGeneration ==
    /\ imagePreview # JsNull
    /\ ~isLoading
    /\ latest < MaxOps
    /\ latest' = latest + 1
    /\ poemCall' = latest'
    /\ isLoading' = TRUE
    /\ Render(imagePreview, JsNull, JsNull, activeTab)
    /\ lastEvent' = [kind |-> "triggerPoemGeneration", gen |-> latest']
    /\ FlowInvoke([photoDataUri |-> imagePreview])
    /\ UNCHANGED <<fileError, selected, readers, urlCall>>
    /\ UNCHANGED convVars

\* triggerPoemGeneration after the await: setGeneratedPoem(result.poem), or
\* the catch block when the flow rejected.
TriggerPoemGenerationSettled ==
    /\ poemCall # 0
    /\ ppc = "done"
    /\ IF poutcome = "resolved"
       THEN Render(imagePreview, presult.poem, error, activeTab)
       ELSE LET e == presult
                errorMsg == IF e.t = "Error" THEN S(e.message)
                            ELSE S(<<"Failed to generate poem.">>)
            IN Render(imagePreview, generatedPoem, errorMsg, activeTab)
    /\ isLoading' = LoadingAfterSettle(poutcome # "resolved")
    /\ poemCall' = 0
    /\ lastEvent' = [kind |-> "triggerPoemGenerationSettled", gen |-> poemCall]
    /\ FlowReset
    /\ UNCHANGED <<fileError, selected, readers, urlCall, latest>>
    /\ UNCHANGED convVars

(*************************** inputs of the component ***********************)

FileSizes == {2 * KiB, MAX_FILE_SIZE, MAX_FILE_SIZE + 1}
FileTypes ==
    ACCEPTED_IMAGE_TYPES
    \cup {<<"image/", "svg+xml">>, <<"text/plain">>, <<>>}

Files == {[id |-> "file", size |-> n, type |-> ty] : n \in FileSizes, ty \in FileTypes}

UiFiles ==
    {[id |-> "cat", size |-> 2 * KiB, type |-> <<"image/", "png">>],
     [id |-> "dog", size |-> 1, type |-> <<"image/", "gif">>],
     [id |-> "film", size |-> MAX_FILE_SIZE + 1, type |-> <<"text/plain">>]}

UiImageUrls == {<<"https:", "//img.example/cat.png">>, <<"not a url">>}

UiTransports ==
    {[rejects |-> TRUE, e |-> TypeErrorFetchFailed],
     [rejects |-> FALSE, status |-> 404, statusText |-> <<"Not Found">>,
      contentType |-> S(<<"text/html">>), json |-> [throws |-> TRUE],
      body |-> [throws |-> FALSE, bytes |-> [id |-> "body", len |-> 0]]],
     [rejects |-> FALSE, status |-> 200, statusText |-> <<>>,
      contentType |-> S(<<"image/", "png">>), json |-> [throws |-> TRUE],
      body |-> [throws |-> FALSE, bytes |-> [id |-> "body", len |-> 2 * KiB]]],
     [rejects |-> FALSE, status |-> 200, statusText |-> <<>>,
      contentType |-> S(<<"image/", "png">>), json |-> [throws |-> TRUE],
      body |-> [throws |-> TRUE, e |-> AbortError]]}

UiModelOutcomes ==
    {[throws |-> TRUE, e |-> e] : e \in ModelErrors}
    \cup {[throws |-> FALSE, output |-> o] :
            o \in {JsNull, [t |-> "object", poem |-> S(<<"Roses are red">>)]}}

UiCallErrors ==
    {[t |-> "Error", name |-> "TypeError", message |-> <<"Failed to ", "fetch">>],
     S(<<"aborted">>)}

(****************************** specifications *****************************)

Init == ConvIdle /\ FlowIdle /\ UiIdle

\* The server action alone, called with any imageUrl over any transport.
NextConvert ==
    \/ (\E imageUrl \in ImageUrls : ConvInvoke(imageUrl)) /\ UNCHANGED <<flowVars, uiVars>>
    \/ ConvValidate /\ UNCHANGED <<flowVars, uiVars>>
    \/ (\E tr \in Transports : ConvFetch(tr)) /\ UNCHANGED <<flowVars, uiVars>>
    \/ ConvStatus /\ UNCHANGED <<flowVars, uiVars>>
    \/ ConvContentType /\ UNCHANGED <<flowVars, uiVars>>
    \/ ConvBody /\ UNCHANGED <<flowVars, uiVars>>
    \/ ConvCatch /\ UNCHANGED <<flowVars, uiVars>>

SpecConvert == Init /\ [][NextConvert]_vars

\* The flow alone, called with any input over any model behaviour.
NextFlow ==
    \/ (\E input \in PoemInputs : FlowInvoke(input)) /\ UNCHANGED <<convVars, uiVars>>
    \/ FlowValidateInput /\ UNCHANGED <<convVars, uiVars>>
    \/ (\E m \in ModelOutcomes : FlowPrompt(m)) /\ UNCHANGED <<convVars, uiVars>>
    \/ FlowValidateOutput /\ UNCHANGED <<convVars, uiVars>>

SpecFlow == Init /\ [][NextFlow]_vars

\* The file input of the component alone, over every kind of file.
NextFile ==
    \/ \E file \in Files : HandleFileChange(<<file>>)
    \/ \E reader \in readers, failed \in BOOLEAN : ReaderLoadEnd(reader, failed)

SpecFile == Init /\ [][NextFile]_vars

\* The component with the server action and the flow it calls.
ServerStep ==
    \/ ConvValidate /\ UNCHANGED <<flowVars, uiVars>>
    \/ (\E tr \in UiTransports : ConvFetch(tr)) /\ UNCHANGED <<flowVars, uiVars>>
    \/ ConvStatus /\ UNCHANGED <<flowVars, uiVars>>
    \/ ConvContentType /\ UNCHANGED <<flowVars, uiVars>>
    \/ ConvBody /\ UNCHANGED <<flowVars, uiVars>>
    \/ ConvCatch /\ UNCHANGED <<flowVars, uiVars>>
    \/ FlowValidateInput /\ UNCHANGED <<convVars, uiVars>>
    \/ (\E m \in UiModelOutcomes : FlowPrompt(m)) /\ UNCHANGED <<convVars, uiVars>>
    \/ FlowValidateOutput /\ UNCHANGED <<convVars, uiVars>>

Settle ==
    \/ OnUrlSubmitResolved
    \/ TriggerPoemGenerationSettled

Next ==
    \/ \E tab \in {"file", "url"} : SwitchTab(tab)
    \/ \E file \in UiFiles : HandleFileChange(<<file>>)
    \/ \E reader \in readers, failed \in BOOLEAN : ReaderLoadEnd(reader, failed)
    \/ \E imageUrl \in UiImageUrls : OnUrlSubmit(imageUrl)
    \/ \E e \in UiCallErrors : OnUrlSubmitThrew(e)
    \/ TriggerPoemGeneration
    \/ ServerStep
    \/ Settle

Spec == Init /\ [][Next]_vars

\* The awaited calls settle: the server keeps stepping and a settled promise
\* resumes the handler that awaits it.
LiveSpec == Spec /\ WF_vars(ServerStep) /\ WF_vars(Settle)

(******************* properties of the server action ***********************)

HasResponse == "status" \in DOMAIN ctr
ConvDone == cpc = "done"
ExceptionRaised == cexc # NoException \/ (jsonRead /\ ctr.json.throws)

\* C1: the action never rejects; whenever the transport raised an exception
\* during the call (fetch rejected, response.json() threw, response.arrayBuffer()
\* threw or was aborted) the promise resolves to success = false with an error
\* message.
C1_NeverRejects ==
    /\ coutcome # "rejected"
    /\ ConvDone => coutcome = "resolved"
    /\ (ConvDone /\ ExceptionRaised) =>
            /\ cresult.success = FALSE
            /\ IsSet(cresult, "error")
            /\ cresult.error.t = "string"

C1_Witness ==
    /\ ConvDone /\ bodyRead /\ cexc = AbortError
    /\ cresult = Failed(S(<<"This operation was aborted">>))

\* C2 (as claimed): for a 404 response, whatever its body and status text, the
\* result is a failure whose message contains "404" or the status text.
C2_Original ==
    (ConvDone /\ HasResponse /\ ctr.status = 404) =>
        /\ cresult.success = FALSE
        /\ \/ Contains(cresult.error.s, <<"404">>)
           \/ Contains(cresult.error.s, ctr.statusText)

JsonMessageFound ==
    /\ ~ctr.json.throws
    /\ ctr.json.value.t = "object"
    /\ ctr.json.value.message.t = "string"
    /\ ctr.json.value.message.s # <<>>

\* C2 (amended): for a 404 response the result is a failure; its message is the
\* message field of the JSON body when the body parses as JSON with a truthy
\* message, and otherwise contains the (non-empty) status text or "404".
C2_Amended ==
    (ConvDone /\ HasResponse /\ ctr.status = 404) =>
        /\ cresult.success = FALSE
        /\ IsSet(cresult, "error")
        /\ IF JsonMessageFound
           THEN cresult.error = ctr.json.value.message
           ELSE \/ ctr.statusText # <<>> /\ Contains(cresult.error.s, ctr.statusText)
                \/ ctr.statusText = <<>> /\ Contains(cresult.error.s, <<"404">>)

C2_Witness ==
    /\ ConvDone /\ HasResponse /\ ctr.status = 404
    /\ ctr.statusText = <<"Not Found">>
    /\ JsonMessageFound
    /\ cresult = Failed(S(<<"quota exceeded">>))

ImageContentType ==
    ctr.contentType.t = "string" /\ StartsWith(ctr.contentType.s, "image/")

\* C6: for an ok response with an image/ content type whose body was read, the
\* action succeeds exactly when 1 <= length <= 10 MiB; an empty body gives the
\* empty-image message, a longer body the 10MB-limit message, and a success
\* carries data:<content-type>;base64,<body> decoding to at most 10 MiB.
C6_SizeWindow ==
    (ConvDone /\ HasResponse /\ ResponseOk(ctr) /\ ImageContentType
        /\ ~ctr.body.throws) =>
        LET n == ctr.body.bytes.len
        IN /\ bodyRead
           /\ cresult.success <=> (n >= 1 /\ n <= 10 * 1024 * 1024)
           /\ (n = 0) => cresult = Failed(S(<<"Fetched image is empty.">>))
           /\ (n > 10 * 1024 * 1024) =>
                    cresult = Failed(S(<<"Image size exceeds 10MB limit.">>))
           /\ cresult.success =>
                /\ cresult.dataUrl.scheme = "data:"
                /\ cresult.dataUrl.mime = ctr.contentType.s
                /\ cresult.dataUrl.marker = ";base64,"
                /\ cresult.dataUrl.data.src = ctr.body.bytes.id
                /\ Base64DecodedLength(cresult.dataUrl.data) = n
                /\ Base64DecodedLength(cresult.dataUrl.data) <= 10 * 1024 * 1024

C6_Witness ==
    /\ ConvDone /\ HasResponse /\ ResponseOk(ctr) /\ ImageContentType
    /\ ~ctr.body.throws
    /\ ctr.body.bytes.len = 10 * 1024 * 1024
    /\ cresult.success

\* C8: for an ok response whose content type is absent or does not start with
\* "image/", the action fails with the content-type message, which contains
\* the observed value, without reading the body, whatever the body's size.
C8_ContentTypeBeforeBody ==
    (ConvDone /\ HasResponse /\ ResponseOk(ctr) /\ ~ImageContentType) =>
        /\ cresult.success = FALSE
        /\ IsSet(cresult, "error")
        /\ StartsWith(cresult.error.s,
             "Invalid content type. URL does not point to an image. Found: ")
        /\ Contains(cresult.error.s, Str(ctr.contentType))
        /\ ~bodyRead

C8_Witness ==
    /\ ConvDone /\ HasResponse /\ ResponseOk(ctr)
    /\ ctr.contentType = S(<<"text/html">>)
    /\ ~ctr.body.throws /\ ctr.body.bytes.len = 11 * 1024 * 1024
    /\ cresult.success = FALSE

\* C9: every result the action returns has exactly one of dataUrl and error
\* set: dataUrl alone when success is true, error alone when it is false.
C9_ExactlyOneField ==
    (ConvDone /\ coutcome = "resolved") =>
        IF cresult.success
        THEN IsSet(cresult, "dataUrl") /\ ~IsSet(cresult, "error")
        ELSE IsSet(cresult, "error") /\ ~IsSet(cresult, "dataUrl")

C9_Witness ==
    /\ ConvDone /\ coutcome = "resolved" /\ cexc = TypeErrorFetchFailed
    /\ cresult = Failed(S(NetworkErrorMessage))

(************************ properties of the flow ***************************)

Canonical(uri) ==
    /\ "scheme" \in DOMAIN uri
    /\ uri.scheme = "data:"
    /\ uri.mime # <<>>
    /\ uri.marker = ";base64,"

\* C3: a request whose photoDataUri is not of the shape
\* data:<mime-type>;base64,<data> fails, and the model is never invoked for it.
C3_MalformedUriRejected ==
    (ppc # "idle" /\ ~Canonical(preq.photoDataUri)) =>
        /\ ~modelCalled
        /\ (ppc = "done") => poutcome = "rejected"

\* C4: for a canonical data URI the flow returns exactly the poem of a model
\* output {poem: s} with s non-empty, and fails when the output has an empty
\* poem, no poem or is null.
C4_PoemOrFailure ==
    (ppc = "done" /\ Canonical(preq.photoDataUri) /\ modelCalled /\ ~pmodel.throws) =>
        LET output == pmodel.output
        IN IF output.t = "object" /\ IsString(output.poem) /\ output.poem.s # <<>>
           THEN poutcome = "resolved" /\ presult.poem = output.poem
           ELSE poutcome = "rejected"

(********************** properties of the component ************************)

Completions == {"readerLoadEnd", "onUrlSubmitSettled", "triggerPoemGenerationSettled"}

\* C5: only the most recently initiated request writes the displayed state:
\* the completion of a request that is no longer the latest one initiated
\* leaves imagePreview, generatedPoem and error as they are.
C5_LastInitiatedWins ==
    [][(lastEvent'.kind \in Completions /\ lastEvent'.gen # latest')
        => UNCHANGED <<imagePreview, generatedPoem, error>>]_vars

\* C7: a selected file over 5 MiB gets the size message whatever its type, a
\* file within 5 MiB of a type outside the four accepted ones gets the type
\* message, and in both cases the preview is cleared and no read of the file
\* is started.
C7_FirstFailingConstraint ==
    (lastEvent.kind = "fileChange") =>
        LET file == selected
            rejectedWith(message) ==
                /\ fileError = message
                /\ imagePreview = JsNull
                /\ \A reader \in readers : reader.gen # lastEvent.gen
        IN /\ (file.size > 5 * 1024 * 1024) =>
                rejectedWith(S(<<"Max file size is 5MB.">>))
           /\ (file.size <= 5 * 1024 * 1024
                /\ file.type \notin {<<"image/", "jpeg">>, <<"image/", "png">>,
                                     <<"image/", "webp">>, <<"image/", "gif">>}) =>
                rejectedWith(S(<<".jpg, .jpeg, .png, .webp and .gif files are accepted.">>))

C7_Witness ==
    /\ lastEvent.kind = "fileChange"
    /\ selected.size = 5 * 1024 * 1024 + 1
    /\ selected.type = <<"text/plain">>
    /\ fileError = S(<<"Max file size is 5MB.">>)
    /\ readers # {}

CallInFlight == urlCall # 0 \/ poemCall # 0

\* C10: isLoading is true exactly while a URL load or a poem generation awaits
\* its call, and once the call settles (success, failure result or exception)
\* isLoading is false again, so the next attempt can be started.
C10_LoadingEnds ==
    /\ [](isLoading <=> CallInFlight)
    /\ isLoading ~> ~isLoading

C10_Witness ==
    /\ ~isLoading
    /\ lastEvent.kind = "onUrlSubmitSettled"
    /\ error = S(NetworkErrorMessage)
    /\ latest < MaxOps

====
